---- MODULE Spec2Model ----
(***************************************************************************)
(* Model of src/src/app.py: the in-memory activity registry with its       *)
(* signup / unregister handlers, and the SQLite-backed Event table with    *)
(* its create / update / delete / signup / unregister / checkin handlers.  *)
(*                                                                         *)
(* Text is modelled so that the comma encoding of attendees is computed:   *)
(* a string is a sequence of pieces, each piece either the separator ","   *)
(* or a non-empty run of characters holding no comma.  An Optional value   *)
(* is <<>> for None and <<v>> for a value v.                               *)
(***************************************************************************)
EXTENDS Integers, Sequences, FiniteSets, TLC

VARIABLES activities, events, trail, last, pc

vars == <<activities, events, trail, last, pc>>

----------------------------------------------------------------------------
(* Bounds of the model *)

MaxEvents == 2

MaxAttendees == 3

NumThreads == 2

----------------------------------------------------------------------------
(* Optional values and strings *)

None == <<>>

Some(v) == <<v>>

\* Python truth of an Optional[str] and of an Optional[int]
TruthyStr(o) == o # None /\ o[1] # <<>>

TruthyInt(o) == o # None /\ o[1] # 0

Comma == ","

In(e, lst) == \E i \in 1..Len(lst) : lst[i] = e

Count(e, lst) == Cardinality({i \in 1..Len(lst) : lst[i] = e})

Unique(lst) == \A i, j \in 1..Len(lst) : lst[i] = lst[j] => i = j

HasComma(s) == In(Comma, s)

\* list.remove(x): drops the first occurrence of x
Remove(lst, e) ==
    LET i == CHOOSE k \in 1..Len(lst) : lst[k] = e /\ \A j \in 1..(k-1) : lst[j] # e
    IN  SubSeq(lst, 1, i-1) \o SubSeq(lst, i+1, Len(lst))

RECURSIVE split(_)
\* str.split(","): the segments between separators, empty ones included
split(s) ==
    IF ~HasComma(s) THEN <<s>>
    ELSE LET i == CHOOSE k \in 1..Len(s) : s[k] = Comma /\ \A j \in 1..(k-1) : s[j] # Comma
         IN  <<SubSeq(s, 1, i-1)>> \o split(SubSeq(s, i+1, Len(s)))

parse_attendees(s) ==
    IF ~TruthyStr(s) THEN <<>>
    ELSE SelectSeq(split(s[1]), LAMBDA e : e # <<>>)

RECURSIVE join_attendees(_)
join_attendees(lst) ==
    IF lst = <<>> THEN <<>>
    ELSE IF Len(lst) = 1 THEN lst[1]
    ELSE lst[1] \o <<Comma>> \o join_attendees(Tail(lst))

----------------------------------------------------------------------------
(* The activity registry *)

Seed(max, p1, p2) == [max_participants |-> max, participants |-> <<p1, p2>>]

InitActivities ==
    [n \in {"Chess Club", "Programming Class", "Gym Class", "Soccer Team",
            "Basketball Team", "Art Club", "Drama Club", "Math Club", "Debate Team"} |->
       CASE n = "Chess Club" -> Seed(12, "michael@mergington.edu", "daniel@mergington.edu")
         [] n = "Programming Class" -> Seed(20, "emma@mergington.edu", "sophia@mergington.edu")
         [] n = "Gym Class" -> Seed(30, "john@mergington.edu", "olivia@mergington.edu")
         [] n = "Soccer Team" -> Seed(22, "liam@mergington.edu", "noah@mergington.edu")
         [] n = "Basketball Team" -> Seed(15, "ava@mergington.edu", "mia@mergington.edu")
         [] n = "Art Club" -> Seed(15, "amelia@mergington.edu", "harper@mergington.edu")
         [] n = "Drama Club" -> Seed(20, "ella@mergington.edu", "scarlett@mergington.edu")
         [] n = "Math Club" -> Seed(10, "james@mergington.edu", "benjamin@mergington.edu")
         [] n = "Debate Team" -> Seed(12, "charlotte@mergington.edu", "henry@mergington.edu")]

Threads == 1..NumThreads

Idle == [at |-> "idle"]

\* The response of an activity handler, with the call it answers:
\*   rep   the call before this one was the same call with the same arguments
\*   prev  the status of the call before this one
ActReply(op, name, email, status, detail) ==
    [op |-> op, name |-> name, email |-> email, status |-> status, detail |-> detail,
     rep |-> (last.op = op /\ last.name = name /\ last.email = email),
     prev |-> last.status]

\* Variant: the new participant is put first
AppendParticipant_front(acts, name, email) ==
    [acts EXCEPT ![name].participants = <<email>> \o @]

AppendParticipant(acts, name, email) ==
    [acts EXCEPT ![name].participants = Append(@, email)]

\* Variant: the membership test is skipped
AlreadySignedUp_never(acts, name, email) == FALSE

RemoveParticipant(acts, name, email) ==
    [acts EXCEPT ![name].participants = Remove(@, email)]

AlreadySignedUp(acts, name, email) == In(email, acts[name].participants)

signup_for_activity(activity_name, email) ==
    /\ IF activity_name \notin DOMAIN activities
       THEN /\ last' = ActReply("signup_for_activity", activity_name, email, 404, <<"Activity not found">>)
            /\ UNCHANGED activities
       ELSE IF AlreadySignedUp(activities, activity_name, email)
       THEN /\ last' = ActReply("signup_for_activity", activity_name, email, 400,
                                <<"Student is already signed up">>)
            /\ UNCHANGED activities
       ELSE /\ activities' = AppendParticipant(activities, activity_name, email)
            /\ last' = ActReply("signup_for_activity", activity_name, email, 200,
                                <<"Signed up", email, "for", activity_name>>)
    /\ UNCHANGED <<events, trail, pc>>

unregister_from_activity(activity_name, email) ==
    /\ IF activity_name \notin DOMAIN activities
       THEN /\ last' = ActReply("unregister_from_activity", activity_name, email, 404,
                                <<"Activity not found">>)
            /\ UNCHANGED activities
       ELSE IF ~In(email, activities[activity_name].participants)
       THEN /\ last' = ActReply("unregister_from_activity", activity_name, email, 400,
                                <<"Student is not signed up for this activity">>)
            /\ UNCHANGED activities
       ELSE /\ activities' = RemoveParticipant(activities, activity_name, email)
            /\ last' = ActReply("unregister_from_activity", activity_name, email, 200,
                                <<"Unregistered", email, "from", activity_name>>)
    /\ UNCHANGED <<events, trail, pc>>

----------------------------------------------------------------------------
(* The Event table *)

Fields == {"title", "description", "location", "start_datetime", "end_datetime",
           "capacity", "attendees", "organizer", "tags"}

\* A new row: the fields of the request body, None for those it leaves out
Event(payload) == [f \in Fields |-> IF f \in DOMAIN payload THEN payload[f] ELSE None]

\* payload.dict(exclude_unset=True) assigned field by field
\* Variant: the row is replaced by the request body
ApplyPayload_replace(event, payload) ==
    [f \in Fields |-> IF f \in DOMAIN payload THEN payload[f] ELSE None]

ApplyPayload(event, payload) ==
    [f \in Fields |-> IF f \in DOMAIN payload THEN payload[f] ELSE event[f]]

\* SQLite rowid of an INTEGER PRIMARY KEY: one more than the largest id stored
NextId == IF DOMAIN events = {} THEN 1
          ELSE 1 + (CHOOSE m \in DOMAIN events : \A k \in DOMAIN events : k <= m)

Put(tbl, id, row) == [k \in DOMAIN tbl \cup {id} |-> IF k = id THEN row ELSE tbl[k]]

Drop(tbl, id) == [k \in DOMAIN tbl \ {id} |-> tbl[k]]

Attendees(id) == parse_attendees(events[id].attendees)

\* Variant: one signup more than the capacity is let through
IsFull_strict(capacity, attendees) == TruthyInt(capacity) /\ Len(attendees) > capacity[1]

\* Variant: the capacity is not looked at
IsFull_never(capacity, attendees) == FALSE

IsFull(capacity, attendees) == TruthyInt(capacity) /\ Len(attendees) >= capacity[1]

\* Variant: the new attendee is put first
AddAttendee_front(attendees, email) == <<email>> \o attendees

AddAttendee(attendees, email) == Append(attendees, email)

\* The response of an event handler, with the call it answers
EvReply(op, id, email, payload, status, detail) ==
    [op |-> op, id |-> id, email |-> email, payload |-> payload, status |-> status,
     detail |-> detail]

\* History kept beside each row, for stating properties of call sequences:
\*   seqOnly     the row was created with empty attendees and no update has
\*               set its attendees or capacity
\*   onlySignups seqOnly, and no unregister has succeeded on it
\*   signed      while onlySignups: the emails signed up, in call order
\*   commaFree   no email signed up so far holds a comma
NewTrail(payload) ==
    LET empty == ~TruthyStr(Event(payload).attendees)
    IN  [seqOnly |-> empty, onlySignups |-> empty, signed |-> <<>>, commaFree |-> TRUE]

create_event(payload) ==
    /\ NextId <= MaxEvents
    /\ events' = Put(events, NextId, Event(payload))
    /\ trail' = Put(trail, NextId, NewTrail(payload))
    /\ last' = EvReply("create_event", NextId, <<>>, payload, 200, <<"event">>)
    /\ UNCHANGED <<activities, pc>>

update_event(event_id, payload) ==
    /\ IF event_id \notin DOMAIN events
       THEN /\ last' = EvReply("update_event", event_id, <<>>, payload, 404, <<"Event not found">>)
            /\ UNCHANGED <<events, trail>>
       ELSE /\ events' = [events EXCEPT ![event_id] = ApplyPayload(@, payload)]
            /\ trail' = IF {"attendees", "capacity"} \cap DOMAIN payload = {} THEN trail
                        ELSE [trail EXCEPT ![event_id].seqOnly = FALSE,
                                           ![event_id].onlySignups = FALSE,
                                           ![event_id].signed = <<>>]
            /\ last' = EvReply("update_event", event_id, <<>>, payload, 200, <<"event">>)
    /\ UNCHANGED <<activities, pc>>

delete_event(event_id) ==
    /\ IF event_id \notin DOMAIN events
       THEN /\ last' = EvReply("delete_event", event_id, <<>>, <<>>, 404, <<"Event not found">>)
            /\ UNCHANGED <<events, trail>>
       ELSE /\ events' = Drop(events, event_id)
            /\ trail' = Drop(trail, event_id)
            /\ last' = EvReply("delete_event", event_id, <<>>, <<>>, 200, <<"deleted">>)
    /\ UNCHANGED <<activities, pc>>

signup_event(event_id, email) ==
    /\ IF event_id \notin DOMAIN events
       THEN /\ last' = EvReply("signup_event", event_id, email, <<>>, 404, <<"Event not found">>)
            /\ UNCHANGED <<events, trail>>
       ELSE LET attendees == Attendees(event_id) IN
            IF In(email, attendees)
            THEN /\ last' = EvReply("signup_event", event_id, email, <<>>, 400, <<"Already signed up">>)
                 /\ UNCHANGED <<events, trail>>
            ELSE IF IsFull(events[event_id].capacity, attendees)
            THEN /\ last' = EvReply("signup_event", event_id, email, <<>>, 400, <<"Event is full">>)
                 /\ UNCHANGED <<events, trail>>
            ELSE /\ Len(attendees) < MaxAttendees
                 /\ Len(trail[event_id].signed) < MaxAttendees
                 /\ events' = [events EXCEPT ![event_id].attendees =
                                  Some(join_attendees(AddAttendee(attendees, email)))]
                 /\ trail' = [trail EXCEPT
                                ![event_id].signed = IF trail[event_id].onlySignups
                                                     THEN Append(@, email) ELSE @,
                                ![event_id].commaFree = @ /\ ~HasComma(email)]
                 /\ last' = EvReply("signup_event", event_id, email, <<>>, 200, <<"Signed up", email>>)
    /\ UNCHANGED <<activities, pc>>

unregister_event(event_id, email) ==
    /\ IF event_id \notin DOMAIN events
       THEN /\ last' = EvReply("unregister_event", event_id, email, <<>>, 404, <<"Event not found">>)
            /\ UNCHANGED <<events, trail>>
       ELSE LET attendees == Attendees(event_id) IN
            IF ~In(email, attendees)
            THEN /\ last' = EvReply("unregister_event", event_id, email, <<>>, 400, <<"Not signed up">>)
                 /\ UNCHANGED <<events, trail>>
            ELSE /\ events' = [events EXCEPT ![event_id].attendees =
                                  Some(join_attendees(Remove(attendees, email)))]
                 /\ trail' = [trail EXCEPT ![event_id].onlySignups = FALSE,
                                           ![event_id].signed = <<>>]
                 /\ last' = EvReply("unregister_event", event_id, email, <<>>, 200, <<"Unregistered", email>>)
    /\ UNCHANGED <<activities, pc>>

\* Variant: a successful checkin consumes the registration
checkin_event_consuming(event_id, email) ==
    /\ IF event_id \notin DOMAIN events
       THEN /\ last' = EvReply("checkin_event", event_id, email, <<>>, 404, <<"Event not found">>)
            /\ UNCHANGED events
       ELSE IF ~In(email, Attendees(event_id))
       THEN /\ last' = EvReply("checkin_event", event_id, email, <<>>, 400, <<"Student not registered">>)
            /\ UNCHANGED events
       ELSE /\ last' = EvReply("checkin_event", event_id, email, <<>>, 200, <<"Checked in", email>>)
            /\ events' = [events EXCEPT ![event_id].attendees =
                             Some(join_attendees(Remove(Attendees(event_id), email)))]
    /\ UNCHANGED <<activities, trail, pc>>

checkin_event(event_id, email) ==
    /\ IF event_id \notin DOMAIN events
       THEN last' = EvReply("checkin_event", event_id, email, <<>>, 404, <<"Event not found">>)
       ELSE IF ~In(email, Attendees(event_id))
       THEN last' = EvReply("checkin_event", event_id, email, <<>>, 400, <<"Student not registered">>)
       ELSE last' = EvReply("checkin_event", event_id, email, <<>>, 200, <<"Checked in", email>>)
    /\ UNCHANGED <<activities, events, trail, pc>>

----------------------------------------------------------------------------
(* The activity handlers run in worker threads without a lock: between the  *)
(* membership test and the list update of one request, another may run.     *)

signup_for_activity_check(t, activity_name, email) ==
    /\ pc[t] = Idle
    /\ IF activity_name \notin DOMAIN activities
       THEN /\ last' = ActReply("signup_for_activity", activity_name, email, 404, <<"Activity not found">>)
            /\ UNCHANGED pc
       ELSE IF AlreadySignedUp(activities, activity_name, email)
       THEN /\ last' = ActReply("signup_for_activity", activity_name, email, 400,
                                <<"Student is already signed up">>)
            /\ UNCHANGED pc
       ELSE /\ pc' = [pc EXCEPT ![t] = [at |-> "append", name |-> activity_name, email |-> email]]
            /\ UNCHANGED last
    /\ UNCHANGED <<activities, events, trail>>

signup_for_activity_append(t) ==
    /\ pc[t].at = "append"
    /\ activities' = AppendParticipant(activities, pc[t].name, pc[t].email)
    /\ last' = ActReply("signup_for_activity", pc[t].name, pc[t].email, 200,
                     <<"Signed up", pc[t].email, "for", pc[t].name>>)
    /\ pc' = [pc EXCEPT ![t] = Idle]
    /\ UNCHANGED <<events, trail>>

unregister_from_activity_check(t, activity_name, email) ==
    /\ pc[t] = Idle
    /\ IF activity_name \notin DOMAIN activities
       THEN /\ last' = ActReply("unregister_from_activity", activity_name, email, 404,
                                <<"Activity not found">>)
            /\ UNCHANGED pc
       ELSE IF ~In(email, activities[activity_name].participants)
       THEN /\ last' = ActReply("unregister_from_activity", activity_name, email, 400,
                                <<"Student is not signed up for this activity">>)
            /\ UNCHANGED pc
       ELSE /\ pc' = [pc EXCEPT ![t] = [at |-> "remove", name |-> activity_name, email |-> email]]
            /\ UNCHANGED last
    /\ UNCHANGED <<activities, events, trail>>

\* list.remove raises ValueError when another request removed the email first
unregister_from_activity_remove(t) ==
    /\ pc[t].at = "remove"
    /\ IF In(pc[t].email, activities[pc[t].name].participants)
       THEN /\ activities' = RemoveParticipant(activities, pc[t].name, pc[t].email)
            /\ last' = ActReply("unregister_from_activity", pc[t].name, pc[t].email, 200,
                                <<"Unregistered", pc[t].email, "from", pc[t].name>>)
       ELSE /\ last' = ActReply("unregister_from_activity", pc[t].name, pc[t].email, 500,
                                <<"Internal Server Error">>)
            /\ UNCHANGED activities
    /\ pc' = [pc EXCEPT ![t] = Idle]
    /\ UNCHANGED <<events, trail>>

----------------------------------------------------------------------------
(* Inputs of the handlers *)

\* An id that no stored event has
MissingId == MaxEvents + 1

Title == [title |-> Some("t1")]

ActivityCalls(names, emails) ==
    \E n \in names, e \in emails :
        \/ signup_for_activity(n, e)
        \/ unregister_from_activity(n, e)

EventCalls(ids, emails, creates, updates) ==
    \/ \E p \in creates : create_event(p)
    \/ \E i \in ids, p \in updates : update_event(i, p)
    \/ \E i \in ids : delete_event(i)
    \/ \E i \in ids, e \in emails : signup_event(i, e)
    \/ \E i \in ids, e \in emails : unregister_event(i, e)
    \/ \E i \in ids, e \in emails : checkin_event(i, e)

Init ==
    /\ activities = InitActivities
    /\ events = <<>>
    /\ trail = <<>>
    /\ last = [op |-> "none", status |-> 0]
    /\ pc = [t \in Threads |-> Idle]

\* Every handler, one request at a time
Next ==
    \/ ActivityCalls({"Chess Club", "Knitting Club"},
                     {"michael@mergington.edu", "test@mergington.edu"})
    \/ EventCalls({1, MissingId}, {<<"a">>, <<"b">>},
                  {Title, [title |-> Some("t1"), attendees |-> Some(<<"a", Comma, "a">>)]},
                  {[title |-> Some("t2")]})

Spec == Init /\ [][Next]_vars

\* The activity registry, one request at a time
ActNext ==
    ActivityCalls({"Chess Club", "Programming Class", "Knitting Club"},
                  {"michael@mergington.edu", "test@mergington.edu"})

ActSpec == Init /\ [][ActNext]_vars

\* The activity registry, requests interleaved
ConcNext ==
    \E t \in Threads :
        \/ \E n \in {"Chess Club", "Knitting Club"},
              e \in {"michael@mergington.edu", "test@mergington.edu"} :
                \/ signup_for_activity_check(t, n, e)
                \/ unregister_from_activity_check(t, n, e)
        \/ signup_for_activity_append(t)
        \/ unregister_from_activity_remove(t)

ConcSpec == Init /\ [][ConcNext]_vars

\* The Event table: capacities and emails with and without a comma
EventNext ==
    EventCalls({1, MissingId}, {<<"a">>, <<"b">>, <<"a", Comma, "b">>},
               {Title}
                 \cup {[title |-> Some("t1"), capacity |-> c] : c \in {Some(0), Some(1), Some(2)}}
                 \cup {[title |-> Some("t1"), attendees |-> Some(<<"a", Comma, "a">>)]},
               {[title |-> Some("t2"), attendees |-> Some(<<"b">>)]})

EventSpec == Init /\ [][EventNext]_vars

\* The Event table: several rows and partial updates
UpdateNext ==
    EventCalls({1, 2, MissingId}, {<<"a">>},
               {Title, [title |-> Some("t1"), description |-> Some("d1"), capacity |-> Some(1)]},
               {[title |-> Some("t2")],
                [title |-> Some("t1"), location |-> Some("l1"), description |-> None],
                [title |-> Some("t1"), capacity |-> Some(2), attendees |-> Some(<<"b">>)]})

UpdateSpec == Init /\ [][UpdateNext]_vars

\* The Event table: signups on a row created with no attendees
RoundTripNext ==
    EventCalls({1, MissingId},
               {<<"a">>, <<"b">>, <<"c">>, <<"a", Comma, "b">>, <<>>},
               {Title, [title |-> Some("t1"), capacity |-> Some(0), attendees |-> Some(<<>>)]},
               {[title |-> Some("t2")]})

RoundTripSpec == Init /\ [][RoundTripNext]_vars

----------------------------------------------------------------------------
(* Properties *)

Participants(n) == activities[n].participants

IsCall(r, op) == r.op = op

ValidEmail(e) == e # <<>> /\ ~HasComma(e)

C2_RepeatedSignupConflicts ==
    [][IsCall(last', "signup_for_activity")
       => (/\ (last'.rep /\ last'.name \in DOMAIN activities)
                => (/\ last'.status = 400
                    /\ last'.detail = <<"Student is already signed up">>
                    /\ activities' = activities)
           /\ (last'.name \notin DOMAIN activities)
                => (/\ last'.status = 404
                    /\ activities' = activities))]_vars

C2_Witness ==
    /\ IsCall(last, "signup_for_activity")
    /\ last.rep
    /\ last.prev = 200
    /\ last.status = 400
    /\ Count(last.email, Participants(last.name)) = 1

\* C3: unregistering an email that is not a member answers 400 and leaves the
\* list as it was, for activities and for events; unregistering a member
\* leaves a list that no longer holds the email and keeps the others in order.
C3_UnregisterRemovesMember ==
    [][/\ (IsCall(last', "unregister_from_activity") /\ last'.name \in DOMAIN activities)
            => IF ~In(last'.email, Participants(last'.name))
               THEN last'.status = 400 /\ activities' = activities
               ELSE /\ last'.status = 200
                    /\ ~In(last'.email, activities'[last'.name].participants)
                    /\ activities'[last'.name].participants =
                         SelectSeq(Participants(last'.name), LAMBDA x : x # last'.email)
       /\ (IsCall(last', "unregister_event") /\ last'.id \in DOMAIN events)
            => IF ~In(last'.email, Attendees(last'.id))
               THEN last'.status = 400 /\ events' = events
               ELSE /\ last'.status = 200
                    /\ ~In(last'.email, parse_attendees(events'[last'.id].attendees))
                    /\ parse_attendees(events'[last'.id].attendees) =
                         SelectSeq(Attendees(last'.id), LAMBDA x : x # last'.email)]_vars

\* C4: signup_event of an email that is not attending answers 400 "Event is
\* full" and leaves the stored attendees as they were when the capacity is
\* above 0 and equals the attendee count; when the capacity is 0 or None it
\* answers 200 whatever the attendee count.
C4_FullEventRejects ==
    [][(/\ IsCall(last', "signup_event")
        /\ last'.id \in DOMAIN events
        /\ ~In(last'.email, Attendees(last'.id)))
       => LET capacity == events[last'.id].capacity
          IN  /\ (capacity # None /\ capacity[1] > 0 /\ Len(Attendees(last'.id)) = capacity[1])
                   => (/\ last'.status = 400
                       /\ last'.detail = <<"Event is full">>
                       /\ events' = events)
              /\ ~TruthyInt(capacity) => last'.status = 200]_vars

C4_Witness ==
    /\ IsCall(last, "signup_event")
    /\ last.status = 400
    /\ last.detail = <<"Event is full">>
    /\ last.id \in DOMAIN events
    /\ Len(Attendees(last.id)) = events[last.id].capacity[1]

\* The emails signed up on a row that was created with no attendees and has
\* no capacity limit, and on which only signups have succeeded since
RoundTripCase(id) ==
    /\ trail[id].onlySignups
    /\ ~TruthyInt(events[id].capacity)
    /\ Unique(trail[id].signed)

\* C5 as stated: after signups of pairwise distinct emails on such a row, the
\* decoded attendees are those emails in the order of the signups.
C5_RoundTripAnyEmail ==
    \A id \in DOMAIN events : RoundTripCase(id) => Attendees(id) = trail[id].signed

\* C5, amended: the same, for emails that are not empty and hold no comma.
C5_RoundTrip ==
    \A id \in DOMAIN events :
        (RoundTripCase(id) /\ \A i \in 1..Len(trail[id].signed) : ValidEmail(trail[id].signed[i]))
        => Attendees(id) = trail[id].signed

C5_Witness ==
    \E id \in DOMAIN events :
        /\ RoundTripCase(id)
        /\ IsCall(last, "signup_event") /\ last.status = 200 /\ last.id = id
        /\ trail[id].signed = <<<<"b">>, <<"c">>, <<"a">>>>
        /\ Attendees(id) = trail[id].signed

\* C6: the decoded attendees of every stored event hold no email twice.
C6_AttendeesUnique ==
    \A id \in DOMAIN events : Unique(Attendees(id))

\* C7: the participants of every activity hold no email twice, also when
\* signups for the same activity and email are interleaved.
C7_ParticipantsUnique ==
    \A n \in DOMAIN activities : Unique(Participants(n))

\* C8: update_event of a stored event sets the fields of the payload and
\* leaves every other field of the row and every other row as they were; for
\* an id that is not stored it answers 404 and changes nothing.
C8_PartialUpdate ==
    [][IsCall(last', "update_event")
       => IF last'.id \in DOMAIN events
          THEN /\ last'.status = 200
               /\ DOMAIN events' = DOMAIN events
               /\ \A k \in DOMAIN events \ {last'.id} : events'[k] = events[k]
               /\ \A f \in Fields :
                    events'[last'.id][f] = IF f \in DOMAIN last'.payload
                                           THEN last'.payload[f]
                                           ELSE events[last'.id][f]
          ELSE /\ last'.status = 404
               /\ events' = events]_vars

C8_Witness ==
    /\ IsCall(last, "update_event")
    /\ last.status = 200
    /\ last.payload = [title |-> Some("t2")]
    /\ events[last.id].title = Some("t2")
    /\ events[last.id].description = Some("d1")
    /\ events[last.id].capacity = Some(1)
    /\ events[last.id].attendees = Some(<<"a">>)
    /\ DOMAIN events \ {last.id} # {}

\* C9: checkin_event changes nothing that is stored; it answers 404 for an id
\* that is not stored, 400 "Student not registered" for an email that is not
\* among the decoded attendees, and 200 "Checked in <email>" otherwise.
C9_CheckinReadsOnly ==
    [][IsCall(last', "checkin_event")
       => (/\ events' = events
           /\ activities' = activities
           /\ IF last'.id \notin DOMAIN events
              THEN last'.status = 404
              ELSE IF ~In(last'.email, Attendees(last'.id))
              THEN last'.status = 400 /\ last'.detail = <<"Student not registered">>
              ELSE last'.status = 200 /\ last'.detail = <<"Checked in", last'.email>>)]_vars

C9_Witness ==
    /\ IsCall(last, "checkin_event")
    /\ last.status = 200
    /\ In(last.email, Attendees(last.id))

\* A row created with no attendees and a capacity above 0, on which no update
\* has set attendees or capacity
CapacityCase(id) ==
    /\ trail[id].seqOnly
    /\ events[id].capacity # None
    /\ events[id].capacity[1] > 0

\* After this step the row has at most capacity attendees; an unregister
\* that succeeded leaves a free slot, and a signup of a new email into a free
\* slot succeeds.
CapacityStep(id) ==
    /\ Len(parse_attendees(events'[id].attendees)) <= events[id].capacity[1]
    /\ (IsCall(last', "unregister_event") /\ last'.id = id /\ last'.status = 200)
         => Len(parse_attendees(events'[id].attendees)) < events[id].capacity[1]
    /\ (/\ IsCall(last', "signup_event") /\ last'.id = id
        /\ ~In(last'.email, Attendees(id))
        /\ Len(Attendees(id)) < events[id].capacity[1])
         => last'.status = 200

\* C10 as stated: signups and unregisters never take such a row above its
\* capacity, and a slot freed by an unregister can be taken again.
C10_CapacityAnyEmail ==
    [][\A id \in DOMAIN events \cap DOMAIN events' :
         (CapacityCase(id) /\ trail'[id].seqOnly) => CapacityStep(id)]_vars

\* C10, amended: the same, when no email signed up holds a comma.
C10_Capacity ==
    [][\A id \in DOMAIN events \cap DOMAIN events' :
         (CapacityCase(id) /\ trail'[id].seqOnly /\ trail'[id].commaFree)
         => CapacityStep(id)]_vars

C10_Witness ==
    /\ IsCall(last, "signup_event")
    /\ last.status = 200
    /\ last.id \in DOMAIN events
    /\ CapacityCase(last.id)
    /\ trail[last.id].commaFree
    /\ ~trail[last.id].onlySignups
    /\ Len(Attendees(last.id)) = events[last.id].capacity[1]

====
